---- MODULE Spec2Model ----
(***************************************************************************)
(* Model of the adaptive integer facade (adaptive_number), its technique   *)
(* registry (techn_type, technique_selector, detected_techniq_used) and    *)
(* its four backends (scalar, MMX, SSE, AVX).                              *)
(*                                                                         *)
(* Values are kept at their real width.  A value of n bytes is the         *)
(* sequence of its n bytes, least significant first, so that the 4- and    *)
(* 8-byte widths are computed exactly (two's complement bit patterns).     *)
(***************************************************************************)
EXTENDS Integers, Sequences, FiniteSets, TLC

(***************************************************************************)
(* Fixed-width bit patterns                                                *)
(***************************************************************************)

RECURSIVE Enc(_, _)
\* the n-byte two's complement pattern of the integer i
Enc(i, n) ==
    IF n = 0 THEN << >> ELSE << i % 256 >> \o Enc(i \div 256, n - 1)

Zero(n) == Enc(0, n)

IsZero(a) == \A k \in 1..Len(a) : a[k] = 0

SignBit(a) == a[Len(a)] >= 128

RECURSIVE AddC(_, _, _)
\* a + b + c on patterns of equal length, carry out of the top byte dropped
AddC(a, b, c) ==
    IF a = << >> THEN << >>
    ELSE LET s == Head(a) + Head(b) + c
         IN  << s % 256 >> \o AddC(Tail(a), Tail(b), s \div 256)

Not(a) == [k \in 1..Len(a) |-> 255 - a[k]]

Add(a, b) == AddC(a, b, 0)

Sub(a, b) == AddC(a, Not(b), 1)

Neg(a) == AddC(Not(a), Zero(Len(a)), 1)

RECURSIVE MulByte(_, _, _)
\* a * d + c for one byte d, truncated to Len(a) bytes
MulByte(a, d, c) ==
    IF a = << >> THEN << >>
    ELSE LET p == Head(a) * d + c
         IN  << p % 256 >> \o MulByte(Tail(a), d, p \div 256)

RECURSIVE ColSum(_, _, _, _, _)
\* the sum of the byte products a[i] * b[k + 1 - i] for i in lo..hi
ColSum(a, b, k, lo, hi) ==
    IF lo = hi THEN a[lo] * b[k + 1 - lo]
    ELSE LET mid == (lo + hi) \div 2
         IN  ColSum(a, b, k, lo, mid) + ColSum(a, b, k, mid + 1, hi)

RECURSIVE MulCols(_, _, _, _, _)
\* << the bytes lo..hi of a * b, the carry out of byte hi >>, c being the
\* carry into byte lo
MulCols(a, b, lo, hi, c) ==
    IF lo = hi
    THEN LET s == ColSum(a, b, lo, 1, lo) + c
         IN  << << s % 256 >>, s \div 256 >>
    ELSE LET mid  == (lo + hi) \div 2
             low  == MulCols(a, b, lo, mid, c)
             high == MulCols(a, b, mid + 1, hi, low[2])
         IN  << low[1] \o high[1], high[2] >>

\* low Len(a) bytes of a * b, for patterns of equal length
Mul(a, b) == IF a = << >> THEN << >> ELSE MulCols(a, b, 1, Len(a), 0)[1]

RECURSIVE ULess(_, _)
\* unsigned a < b on patterns of equal length
ULess(a, b) ==
    IF a = << >> THEN FALSE
    ELSE LET n == Len(a)
         IN  IF a[n] # b[n] THEN a[n] < b[n]
             ELSE ULess(SubSeq(a, 1, n - 1), SubSeq(b, 1, n - 1))

\* integral conversion to m bytes: truncation, or sign/zero extension
Conv(a, isSigned, m) ==
    IF m <= Len(a) THEN SubSeq(a, 1, m)
    ELSE a \o [k \in 1..(m - Len(a)) |-> IF isSigned /\ SignBit(a) THEN 255 ELSE 0]

RECURSIVE Digit(_, _, _, _)
\* the largest d in lo..hi with d * b <= cur (bisection)
Digit(cur, b, lo, hi) ==
    IF lo = hi THEN lo
    ELSE LET mid == (lo + hi + 1) \div 2
         IN  IF ULess(cur, MulByte(b, mid, 0)) THEN Digit(cur, b, lo, mid - 1)
             ELSE Digit(cur, b, mid, hi)

RECURSIVE LongDiv(_, _, _, _, _)
\* schoolbook division, one quotient byte per step from byte hi of a down to
\* byte lo, rem being the remainder left by the bytes above hi; b has one
\* byte more than a, its top byte 0;
\* the result is << quotient bytes, most significant first, remainder >>
LongDiv(a, b, lo, hi, rem) ==
    IF lo = hi
    THEN LET cur == << a[lo] >> \o SubSeq(rem, 1, Len(a))
             d   == Digit(cur, b, 0, 255)
         IN  << << d >>, Sub(cur, MulByte(b, d, 0)) >>
    ELSE LET mid == (lo + hi) \div 2
             up  == LongDiv(a, b, mid + 1, hi, rem)
             dn  == LongDiv(a, b, lo, mid, up[2])
         IN  << up[1] \o dn[1], dn[2] >>

\* the bytes of a in the opposite order
Reverse(a) == [k \in 1..Len(a) |-> a[Len(a) + 1 - k]]

\* the divisor is below 2^23, so that a remainder times 256 plus a byte is an integer
ShortDivisor(b) == \A k \in 1..Len(b) : (k > 3 \/ (k = 3 /\ b[k] >= 128)) => b[k] = 0

RECURSIVE ShortDiv(_, _, _, _, _)
\* division by the integer d, one quotient byte per step from byte hi of a
\* down to byte lo, rem being the remainder left by the bytes above hi;
\* the result is << quotient bytes, most significant first, remainder >>
ShortDiv(a, d, lo, hi, rem) ==
    IF lo = hi
    THEN LET cur == rem * 256 + a[lo]
         IN  << << cur \div d >>, cur % d >>
    ELSE LET mid == (lo + hi) \div 2
             up  == ShortDiv(a, d, mid + 1, hi, rem)
             dn  == ShortDiv(a, d, lo, mid, up[2])
         IN  << up[1] \o dn[1], dn[2] >>

\* unsigned quotient of two n-byte patterns, b # 0
UDiv(a, b) ==
    LET n == Len(a)
    IN  IF ShortDivisor(b)
        THEN Reverse(ShortDiv(a, b[1] + (IF n > 1 THEN 256 * b[2] ELSE 0)
                                       + (IF n > 2 THEN 65536 * b[3] ELSE 0), 1, n, 0)[1])
        ELSE Reverse(LongDiv(a, b \o << 0 >>, 1, n, Zero(n + 1))[1])

Abs(a) == IF SignBit(a) THEN Neg(a) ELSE a

\* signed quotient rounded toward minus infinity (floored), as a pattern of
\* the same length: what a / b would be if the division did not truncate
FloorDiv(a, b) ==
    LET q == UDiv(Abs(a), Abs(b))
    IN  IF SignBit(a) = SignBit(b) THEN q
        ELSE IF Mul(q, Abs(b)) = Abs(a) THEN Neg(q)
        ELSE Sub(Neg(q), Enc(1, Len(a)))

\* signed quotient truncated toward zero, as a pattern of the same length
SDiv(a, b) ==
    LET q == UDiv(Abs(a), Abs(b))
    IN  IF SignBit(a) # SignBit(b) THEN Neg(q) ELSE q

(***************************************************************************)
(* Outcomes of a call.  A call returns a value, ends in the fatal          *)
(* arithmetic condition (the process is terminated by the trap), or is     *)
(* rejected by the compiler when the member function is instantiated.      *)
(* Where the C++ expression has undefined behaviour the call has several   *)
(* possible outcomes and the operators below return the set of them.       *)
(***************************************************************************)

Val(v) == [k |-> "val", v |-> v]

Fatal == [k |-> "fatal", v |-> << >>]

IllFormed == [k |-> "illformed", v |-> << >>]

\* the most negative value of n bytes
MinOf(n) == [k \in 1..n |-> IF k = n THEN 128 ELSE 0]

\* values an optimised build may leave behind when it removes or folds a division by zero
Garbage(n) == {Enc(0, n), Enc(-1, n)}

(***************************************************************************)
(* Built-in arithmetic of C++ on two operands of the type T                *)
(* (T.bytes = sizeof(T), T.sgn = is signed).  Operands narrower than int   *)
(* are promoted to int; the result is converted back to T on return.       *)
(***************************************************************************)

PromBytes(T) == IF T.bytes < 4 THEN 4 ELSE T.bytes

PromSigned(T) == IF T.bytes < 4 THEN TRUE ELSE T.sgn

\* the result r left in the promoted type, not converted to value_type
Unconverted(T, r, ovf) ==
    IF ovf THEN {Val(r), Fatal}
    ELSE {Val(r)}

\* outcomes of an expression whose exact result r overflows a signed type when ovf
Arith(T, r, ovf) ==
    IF ovf THEN {Val(Conv(r, TRUE, T.bytes)), Fatal}
    ELSE {Val(Conv(r, TRUE, T.bytes))}

\* a + b
cxx_add(T, a, b) ==
    LET n  == PromBytes(T)
        pa == Conv(a, T.sgn, n)
        pb == Conv(b, T.sgn, n)
        r  == Add(pa, pb)
    IN  Arith(T, r, PromSigned(T) /\ SignBit(pa) = SignBit(pb) /\ SignBit(r) # SignBit(pa))

\* a - b
cxx_sub(T, a, b) ==
    LET n  == PromBytes(T)
        pa == Conv(a, T.sgn, n)
        pb == Conv(b, T.sgn, n)
        r  == Sub(pa, pb)
    IN  Arith(T, r, PromSigned(T) /\ SignBit(pa) # SignBit(pb) /\ SignBit(r) # SignBit(pa))

\* a * b
cxx_mul(T, a, b) ==
    LET n    == PromBytes(T)
        pa   == Conv(a, T.sgn, n)
        pb   == Conv(b, T.sgn, n)
        r    == Mul(pa, pb)
        wide == Mul(Conv(pa, TRUE, 2 * n), Conv(pb, TRUE, 2 * n))
    IN  Arith(T, r, PromSigned(T) /\ wide # Conv(r, TRUE, 2 * n))

\* a / b
cxx_div(T, a, b) ==
    LET n  == PromBytes(T)
        pa == Conv(a, T.sgn, n)
        pb == Conv(b, T.sgn, n)
    IN  IF IsZero(pb) THEN {Fatal} \cup {Val(g) : g \in Garbage(T.bytes)}
        ELSE IF ~PromSigned(T) THEN {Val(Conv(UDiv(pa, pb), FALSE, T.bytes))}
        ELSE IF pa = MinOf(n) /\ pb = Enc(-1, n) THEN {Fatal, Val(Conv(pa, TRUE, T.bytes))}
        ELSE {Val(Conv(SDiv(pa, pb), TRUE, T.bytes))}

(***************************************************************************)
(* Vector registers: a register is the sequence of its lanes, lane 0       *)
(* first; a lane is the byte pattern of its L bytes.                       *)
(***************************************************************************)

\* _mm_set1_pi8/16/32, _mm_set1_epi8/16/32/64x, _mm256_set1_epi8/16/32/64x:
\* the argument is converted to the lane type and copied into each of the
\* R / L lanes of a register of R bytes
set1(R, L, T, a) ==
    LET v == Conv(a, T.sgn, L)
    IN  [j \in 1..(R \div L) |-> v]

\* _m_from_int64: the argument converted to a 64-bit integer is the register
m_from_int64(T, a) == << Conv(a, T.sgn, 8) >>

LaneOp(op, la, lb) ==
    CASE op = "add" -> Add(la, lb)
      [] op = "sub" -> Sub(la, lb)
      [] op = "mullo" -> Mul(la, lb)

\* _mm_add_*, _mm_sub_*, _mm_mullo_*: the operation on each pair of lanes, wrapping
Lanes(op, ra, rb) == [j \in 1..Len(ra) |-> LaneOp(op, ra[j], rb[j])]

\* _mm_extract_epi8/16/32/64(vc, 0), _mm256_extract_*: lane 0, zero-extended to
\* the int (or long long) the intrinsic returns, then converted to value_type
extract0(T, vc) ==
    LET L == Len(vc[1])
    IN  Conv(Conv(vc[1], FALSE, IF L < 4 THEN 4 ELSE L), TRUE, T.bytes)

RECURSIVE LowBytes(_, _, _)
\* the m low bytes of a register, from lane j on
LowBytes(vc, j, m) ==
    IF m <= 0 THEN << >>
    ELSE IF Len(vc[j]) >= m THEN SubSeq(vc[j], 1, m)
    ELSE vc[j] \o LowBytes(vc, j + 1, m - Len(vc[j]))

\* _mm_cvtsi64_si32(vc): the low 32 bits of the register, converted to value_type
cvtsi64_si32(T, vc) == Conv(LowBytes(vc, 1, 4), TRUE, T.bytes)

\* _mm_cvtm64_si64(vc): the 64 bits of the register, converted to value_type
cvtm64_si64(T, vc) == Conv(LowBytes(vc, 1, 8), TRUE, T.bytes)

(***************************************************************************)
(* The four backends.  Each operation returns its set of outcomes.         *)
(***************************************************************************)

scalar_add(T, a, b) == cxx_add(T, a, b)

scalar_sub(T, a, b) == cxx_sub(T, a, b)

scalar_mul(T, a, b) == cxx_mul(T, a, b)

scalar_div(T, a, b) == cxx_div(T, a, b)

mmx_addsub(op, T, a, b) ==
    IF T.bytes \in {1, 2, 4}
    THEN {Val(cvtsi64_si32(T, Lanes(op, set1(8, T.bytes, T, a), set1(8, T.bytes, T, b))))}
    ELSE IF T.bytes = 8
    THEN {Val(cvtm64_si64(T, Lanes(op, m_from_int64(T, a), m_from_int64(T, b))))}
    ELSE IF op = "add" THEN cxx_add(T, a, b) ELSE cxx_sub(T, a, b)

mmx_add(T, a, b) == mmx_addsub("add", T, a, b)

mmx_sub(T, a, b) == mmx_addsub("sub", T, a, b)

mmx_mul(T, a, b) ==
    IF T.bytes \in {1, 2}
    THEN {Val(cvtsi64_si32(T, Lanes("mullo", set1(8, 2, T, a), set1(8, 2, T, b))))}
    ELSE cxx_mul(T, a, b)

mmx_div(T, a, b) == cxx_div(T, a, b)

sse_addsub(op, T, a, b) ==
    IF T.bytes \in {1, 2, 4, 8}
    THEN {Val(extract0(T, Lanes(op, set1(16, T.bytes, T, a), set1(16, T.bytes, T, b))))}
    ELSE {Val(Zero(T.bytes))}

sse_add(T, a, b) == sse_addsub("add", T, a, b)

sse_sub(T, a, b) == sse_addsub("sub", T, a, b)

sse_mul(T, a, b) ==
    IF T.bytes \in {1, 2}
    THEN {Val(extract0(T, Lanes("mullo", set1(16, 2, T, a), set1(16, 2, T, b))))}
    ELSE IF T.bytes = 4
    THEN {Val(extract0(T, Lanes("mullo", set1(16, 4, T, a), set1(16, 4, T, b))))}
    ELSE cxx_mul(T, a, b)

sse_div(T, a, b) == cxx_div(T, a, b)

\* an add whose unmatched widths fall back to the scalar expression
add_with_scalar_fallback(T, a, b) ==
    IF T.bytes \in {1, 2, 4, 8}
    THEN {Val(extract0(T, Lanes("add", set1(32, T.bytes, T, a), set1(32, T.bytes, T, b))))}
    ELSE cxx_add(T, a, b)

avx_add(T, a, b) ==
    IF T.bytes \in {1, 2, 4, 8}
    THEN {Val(extract0(T, Lanes("add", set1(32, T.bytes, T, a), set1(32, T.bytes, T, b))))}
    ELSE {Val(Zero(T.bytes))}

\* Every branch of sub is compiled for every TINT (plain if, not if constexpr).
\* The sizeof(TINT) == 16 branch reads a.low, a.hight and writes _result.low,
\* which no integer type has, and the other branches pass a to _mm256_set1_*,
\* which no class type converts to: the instantiation is rejected for every TINT.
avx_sub(T, a, b) == {IllFormed}

avx_mul(T, a, b) ==
    IF T.bytes \in {1, 2}
    THEN {Val(extract0(T, Lanes("mullo", set1(32, 2, T, a), set1(32, 2, T, b))))}
    ELSE IF T.bytes = 4
    THEN {Val(extract0(T, Lanes("mullo", set1(32, 4, T, a), set1(32, 4, T, b))))}
    ELSE IF T.bytes = 8
    THEN {Val(extract0(T, Lanes("mullo", set1(32, 8, T, a), set1(32, 8, T, b))))}
    ELSE {Val(Zero(T.bytes))}

avx_div(T, a, b) == cxx_div(T, a, b)

Backends == {"scalar", "mmx", "sse", "avx"}

Ops == {"add", "sub", "mul", "div"}

\* the body of backend bk's operation op
BackendBody(bk, op, T, a, b) ==
    CASE bk = "scalar" ->
           (CASE op = "add" -> scalar_add(T, a, b) [] op = "sub" -> scalar_sub(T, a, b)
              [] op = "mul" -> scalar_mul(T, a, b) [] op = "div" -> scalar_div(T, a, b))
      [] bk = "mmx" ->
           (CASE op = "add" -> mmx_add(T, a, b) [] op = "sub" -> mmx_sub(T, a, b)
              [] op = "mul" -> mmx_mul(T, a, b) [] op = "div" -> mmx_div(T, a, b))
      [] bk = "sse" ->
           (CASE op = "add" -> sse_add(T, a, b) [] op = "sub" -> sse_sub(T, a, b)
              [] op = "mul" -> sse_mul(T, a, b) [] op = "div" -> sse_div(T, a, b))
      [] bk = "avx" ->
           (CASE op = "add" -> avx_add(T, a, b) [] op = "sub" -> avx_sub(T, a, b)
              [] op = "mul" -> avx_mul(T, a, b) [] op = "div" -> avx_div(T, a, b))

\* technique_backend_avx::mul calls _mm256_mullo_epi64 in its 8-byte branch, an
\* intrinsic of AVX512DQ + AVX512VL: on a target without them the compiler
\* rejects the instantiation for an 8-byte TINT
MissingIntrinsic(flags, bk, op, T) ==
    /\ bk = "avx"
    /\ op = "mul"
    /\ T.bytes = 8
    /\ ~({"__AVX512DQ__", "__AVX512VL__"} \subseteq flags)

\* backend_type::add / sub / mul / div of the backend bk, in a build with the given flags
BackendOp(flags, bk, op, T, a, b) ==
    IF MissingIntrinsic(flags, bk, op, T) THEN {IllFormed}
    ELSE BackendBody(bk, op, T, a, b)

(***************************************************************************)
(* Technique registry                                                      *)
(***************************************************************************)

\* the capability macros the headers test, and the target features the
\* intrinsics they call depend on
AllFlags == {"__MMX__", "__SSE2__", "__AVX2__", "__AVX512__", "__NEON__", "__GPU__",
             "__AVX512DQ__", "__AVX512VL__"}

\* enum class techn_type: the enumerators by value
Scalar == 0
MMX == 1
SSE == 2
AVX == 4
AVX512 == 8
NEON == 16
OpenCL == 200
Vulkan == 201
internal == 255

TechIds == {Scalar, MMX, SSE, AVX, AVX512, NEON, OpenCL, Vulkan, internal}

\* the enumerators that techn_type declares in a build
Enumerators(flags) ==
    {Scalar, internal}
    \cup (IF "__MMX__" \in flags THEN {MMX} ELSE {})
    \cup (IF "__SSE2__" \in flags THEN {SSE} ELSE {})
    \cup (IF "__AVX2__" \in flags THEN {AVX} ELSE {})
    \cup (IF "__AVX512__" \in flags THEN {AVX512} ELSE {})
    \cup (IF "__GPU__" \in flags THEN {OpenCL, Vulkan} ELSE {})

\* The headers compile only when every enumerator they name outside a
\* conditional block exists: detected_techniq_used and the two 8-byte full
\* specialisations name SSE and AVX unconditionally; under __NEON__ the enum
\* declares a second AVX512 (= 16) while technt2string names techn_t::NEON.
WellFormed(flags) ==
    /\ "__SSE2__" \in flags
    /\ "__AVX2__" \in flags
    /\ "__NEON__" \notin flags

\* internal::detected_techniq_used<TINT>()
detected_techniq_used(T) ==
    IF T.bytes <= 4 THEN Scalar
    ELSE IF T.bytes <= 8 THEN SSE
    ELSE AVX

\* a registry without the AVX512 specialisation: AVX512 takes the primary
\* template like any other technique that has no backend of its own
selector_without_avx512(flags, T, tech) ==
    IF ~WellFormed(flags) THEN "illformed"
    ELSE IF tech = MMX /\ "__MMX__" \in flags THEN "mmx"
    ELSE IF tech = SSE /\ "__SSE2__" \in flags THEN "sse"
    ELSE IF tech = AVX /\ "__AVX2__" \in flags THEN "avx"
    ELSE "scalar"

\* technique_selector<TINT, TTECH>::type
technique_selector(flags, T, tech) ==
    IF ~WellFormed(flags) THEN "illformed"
    ELSE IF tech = Scalar THEN "scalar"
    ELSE IF tech = internal THEN "scalar"
    ELSE IF tech = MMX /\ "__MMX__" \in flags THEN "mmx"
    ELSE IF tech = SSE /\ "__SSE2__" \in flags THEN "sse"
    ELSE IF tech = AVX /\ "__AVX2__" \in flags THEN "avx"
    ELSE IF tech = AVX512 /\ "__AVX512__" \in flags THEN "avx"
    ELSE "scalar"

\* technt2string(tech)
technt2string(flags, tech) ==
    IF ~WellFormed(flags) THEN "illformed"
    ELSE IF tech = MMX /\ "__MMX__" \in flags THEN "MMX"
    ELSE IF tech = SSE /\ "__SSE2__" \in flags THEN "SSE"
    ELSE IF tech = AVX /\ "__AVX2__" \in flags THEN "AVX"
    ELSE IF tech = AVX512 /\ "__AVX512__" \in flags THEN "AVX512"
    ELSE IF tech = OpenCL /\ "__GPU__" \in flags THEN "OpenCL"
    ELSE IF tech = Vulkan /\ "__GPU__" \in flags THEN "Vulkan"
    ELSE "Scalar"

(***************************************************************************)
(* Bounds and input domains                                                *)
(***************************************************************************)

\* operands include every integer of magnitude up to SmallN
SmallN == 2

Widths == {1, 2, 4, 8}

Types == [bytes : Widths, sgn : BOOLEAN]

MaxOf(n) == Not(MinOf(n))

\* operand values of the type T: small integers, the values the documented
\* examples use, and the extremes of the width
Vals(T) ==
    {Enc(i, T.bytes) : i \in (-SmallN..SmallN) \cup {7, -7}}
    \cup (IF T.bytes = 1 THEN {Enc(i, 1) : i \in {10, 127, 200, 250}} ELSE {})
    \cup {MinOf(T.bytes), MaxOf(T.bytes)}

(***************************************************************************)
(* State                                                                   *)
(***************************************************************************)

VARIABLES
    flags,    \* the capability macros of the build (fixed at build time)
    TINT,     \* the integer type the Adaptive Value wraps
    TTECH,    \* the technique template argument of the Adaptive Value
    req,      \* how the technique was requested: by default or explicitly
    bound,    \* backend_type, the backend the binding resolved to
    name,     \* technt2string(get_techniq()) of the value
    x,        \* m_tiValue of the value bound to TTECH
    ref,      \* m_tiValue of a value of the same width bound to Scalar
    xst,      \* "ok", or how the run holding x ended
    refst,    \* "ok", or how the run holding ref ended
    call,     \* the backend call under test: operation and operand pair
    out,      \* the outcomes of the last backend call, per compiled-in backend
    last,     \* the last operator applied to the Adaptive Value
    res,      \* the Adaptive Value the last operator returned, if it returned one
    zdiv,     \* a zero divisor has been used in this run
    y,        \* m_tiValue of a second value of the same type, the other operand
    tech,     \* get_techniq() as reported at construction, by x and by the result
    thr,      \* per thread: its own Adaptive Value and its position in the operator it runs
    frames    \* per activation frame: the automatic variables of the backend call in progress

vars == <<flags, TINT, TTECH, req, bound, name, x, ref, xst, refst, call, out, last, res, zdiv, y, tech,
          thr, frames>>

NoCall == [op |-> "none", a |-> << >>, b |-> << >>]

NoRes == [k |-> "none", v |-> << >>]

NoOut == [bk \in {} |-> {}]

NoTech == [made |-> {}, self |-> {}, result |-> {}]

\* the backends whose class template exists in the build
CompiledBackends(f) ==
    {"scalar"}
    \cup (IF "__MMX__" \in f THEN {"mmx"} ELSE {})
    \cup (IF "__SSE2__" \in f THEN {"sse"} ELSE {})
    \cup (IF "__AVX2__" \in f THEN {"avx"} ELSE {})

(***************************************************************************)
(* SpecBackend: the four operations of every backend as pure functions.    *)
(* The initial states draw the build, the width and the operand pair; each *)
(* action calls one operation on every compiled-in backend.                *)
(***************************************************************************)

\* the builds the backends are exercised in: an AVX2 target, and one that
\* also has the AVX-512 features _mm256_mullo_epi64 needs
BackendBuilds ==
    {{"__MMX__", "__SSE2__", "__AVX2__"},
     {"__MMX__", "__SSE2__", "__AVX2__", "__AVX512DQ__", "__AVX512VL__"}}

InitBackend ==
    /\ flags \in BackendBuilds
    /\ TINT \in Types
    /\ TTECH = Scalar
    /\ req = "explicit"
    /\ bound = "scalar"
    /\ name = "Scalar"
    /\ x = Zero(TINT.bytes)
    /\ ref = Zero(TINT.bytes)
    /\ xst = "ok"
    /\ refst = "ok"
    /\ \E a \in Vals(TINT), b \in Vals(TINT) : call = [op |-> "none", a |-> a, b |-> b]
    /\ out = [bk \in CompiledBackends(flags) |-> {}]
    /\ last = "none"
    /\ res = NoRes
    /\ zdiv = FALSE
    /\ y = Zero(TINT.bytes)
    /\ tech = NoTech
    /\ thr = << >>
    /\ frames = << >>

\* backend_type::op(a, b) on every backend of the build
Call(op) ==
    /\ call.op = "none"
    /\ call' = [call EXCEPT !.op = op]
    /\ out' = [bk \in CompiledBackends(flags) |-> BackendOp(flags, bk, op, TINT, call.a, call.b)]
    /\ UNCHANGED <<flags, TINT, TTECH, req, bound, name, x, ref, xst, refst, last, res, zdiv, y, tech, thr, frames>>

add == Call("add")

sub == Call("sub")

mul == Call("mul")

div == Call("div")

NextBackend == add \/ sub \/ mul \/ div

SpecBackend == InitBackend /\ [][NextBackend]_vars

(***************************************************************************)
(* SpecWide: the four operations of every backend on a type whose width is *)
(* none of 1, 2, 4, 8 bytes.  The backends are class templates over any    *)
(* TINT; the integer types of 16 bytes are the ones a build offers.        *)
(***************************************************************************)

\* __int128 and unsigned __int128
WideTypes == [bytes : {16}, sgn : BOOLEAN]

InitWide ==
    /\ flags \in BackendBuilds
    /\ TINT \in WideTypes
    /\ TTECH = Scalar
    /\ req = "explicit"
    /\ bound = "scalar"
    /\ name = "Scalar"
    /\ x = Zero(TINT.bytes)
    /\ ref = Zero(TINT.bytes)
    /\ xst = "ok"
    /\ refst = "ok"
    /\ \E a \in Vals(TINT), b \in Vals(TINT) : call = [op |-> "none", a |-> a, b |-> b]
    /\ out = [bk \in CompiledBackends(flags) |-> {}]
    /\ last = "none"
    /\ res = NoRes
    /\ zdiv = FALSE
    /\ y = Zero(TINT.bytes)
    /\ tech = NoTech
    /\ thr = << >>
    /\ frames = << >>

SpecWide == InitWide /\ [][NextBackend]_vars

(***************************************************************************)
(* SpecResolve: the technique registry as a pure function.  The initial    *)
(* states draw the capability flags, the width and the request; the        *)
(* actions instantiate adaptive_number<TINT> or adaptive_number<TINT, t>.  *)
(***************************************************************************)

InitResolve ==
    /\ flags \in SUBSET AllFlags
    /\ TINT \in Types
    /\ \/ req = "default" /\ TTECH = internal
       \/ req = "explicit" /\ TTECH \in TechIds
    /\ bound = "none"
    /\ name = "none"
    /\ x = Zero(TINT.bytes)
    /\ ref = Zero(TINT.bytes)
    /\ xst = "ok"
    /\ refst = "ok"
    /\ call = NoCall
    /\ out = NoOut
    /\ last = "none"
    /\ res = NoRes
    /\ zdiv = FALSE
    /\ y = Zero(TINT.bytes)
    /\ tech = NoTech
    /\ thr = << >>
    /\ frames = << >>

\* adaptive_number<TINT, t>: backend_type and get_techniq() of the instantiation
Instantiate(t) ==
    /\ bound = "none"
    /\ TTECH' = IF WellFormed(flags) THEN t ELSE TTECH
    /\ bound' = technique_selector(flags, TINT, t)
    /\ name' = technt2string(flags, t)
    /\ UNCHANGED <<flags, TINT, req, x, ref, xst, refst, call, out, last, res, zdiv, y, tech, thr, frames>>

\* adaptive_number<TINT>: TTECH defaults to ADAPTIVE_BASE_TECHNIQ_USE
BindDefault ==
    /\ req = "default"
    /\ Instantiate(detected_techniq_used(TINT))

\* adaptive_number<TINT, t> with the technique named by the caller
BindExplicit ==
    /\ req = "explicit"
    /\ Instantiate(TTECH)

NextResolve == BindDefault \/ BindExplicit

SpecResolve == InitResolve /\ [][NextResolve]_vars

(***************************************************************************)
(* Spec: the Adaptive Value facade.  A value x bound to TTECH and a value  *)
(* ref of the same width bound to Scalar are constructed from the same     *)
(* value and receive the same operations with the same operands.           *)
(***************************************************************************)

\* the builds the facade is exercised in: an AVX2 target and a target that
\* defines every capability macro except __NEON__
FacadeBuilds ==
    {{"__MMX__", "__SSE2__", "__AVX2__"},
     AllFlags \ {"__NEON__"}}

\* the values the facade is constructed from and operated with
Operands(T) == {Enc(i, T.bytes) : i \in -SmallN..SmallN} \cup {MinOf(T.bytes), MaxOf(T.bytes)}

\* explicit adaptive_number(value_type value)
Init ==
    /\ flags \in FacadeBuilds
    /\ TINT \in Types
    /\ TTECH \in TechIds
    /\ req = "explicit"
    /\ bound = technique_selector(flags, TINT, TTECH)
    /\ name = technt2string(flags, TTECH)
    /\ \E v \in Operands(TINT) : x = v /\ ref = v
    /\ xst = "ok"
    /\ refst = "ok"
    /\ call = NoCall
    /\ out = NoOut
    /\ last = "none"
    /\ res = NoRes
    /\ zdiv = FALSE
    /\ y = Zero(TINT.bytes)
    /\ tech = NoTech
    /\ thr = << >>
    /\ frames = << >>

\* both runs are alive, no zero divisor has been used and the held values
\* are inside the explored domain
Running ==
    /\ xst = "ok"
    /\ refst = "ok"
    /\ ~zdiv
    /\ x \in Operands(TINT)
    /\ ref \in Operands(TINT)

\* m_tiValue = backend_type::op(m_tiValue, b), on x and on ref;
\* returnsCopy: the operator returns *this by value
Assign(opname, op, b, returnsCopy) ==
    /\ Running
    /\ \E o \in BackendOp(flags, bound, op, TINT, x, b) :
          /\ x' = IF o.k = "val" THEN o.v ELSE x
          /\ xst' = IF o.k = "val" THEN "ok" ELSE o.k
          /\ res' = IF returnsCopy /\ o.k = "val" THEN o ELSE NoRes
    /\ \E o \in BackendOp(flags, "scalar", op, TINT, ref, b) :
          /\ ref' = IF o.k = "val" THEN o.v ELSE ref
          /\ refst' = IF o.k = "val" THEN "ok" ELSE o.k
    /\ last' = opname
    /\ zdiv' = (op = "div" /\ IsZero(b))
    /\ UNCHANGED <<flags, TINT, TTECH, req, bound, name, call, out, y, tech, thr, frames>>

\* void set(const value_type v) const { m_tiValue = v; }  assigns a member in
\* a const member function: every call of set is rejected by the compiler
set ==
    /\ Running
    /\ \E v \in Operands(TINT) : call' = [op |-> "set", a |-> x, b |-> v]
    /\ last' = "set"
    /\ xst' = "illformed"
    /\ refst' = "illformed"
    /\ res' = NoRes
    /\ UNCHANGED <<flags, TINT, TTECH, req, bound, name, x, ref, out, zdiv, y, tech, thr, frames>>

\* x += y with y holding b
AddAssignBy(b) == Assign("+=", "add", b, FALSE)

\* x -= y with y holding b
SubAssignBy(b) == Assign("-=", "sub", b, FALSE)

\* x *= y with y holding b
MulAssignBy(b) == Assign("*=", "mul", b, FALSE)

\* x /= y with y holding b
DivAssignBy(b) == Assign("/=", "div", b, FALSE)

\* this_type& operator += (const_refernce other)
AddAssign == \E b \in Operands(TINT) : AddAssignBy(b)

\* this_type& operator -= (const_refernce other)
SubAssign == \E b \in Operands(TINT) : SubAssignBy(b)

\* this_type& operator *= (const_refernce other)
MulAssign == \E b \in Operands(TINT) : MulAssignBy(b)

\* this_type& operator /= (const_refernce other)
DivAssign == \E b \in Operands(TINT) : DivAssignBy(b)

\* this_type operator ++ (int): m_tiValue = add(m_tiValue, 1); return *this
Increment == Assign("++", "add", Enc(1, TINT.bytes), TRUE)

\* this_type operator -- (int): m_tiValue = sub(m_tiValue, 1); return *this
Decrement == Assign("--", "sub", Enc(1, TINT.bytes), TRUE)

\* x / y with y holding b: this_type result(backend_type::div(...)); return result
DivideBy(b) ==
    /\ Running
    /\ \E o \in BackendOp(flags, bound, "div", TINT, x, b) :
          /\ res' = IF o.k = "val" THEN o ELSE NoRes
          /\ xst' = IF o.k = "val" THEN "ok" ELSE o.k
    /\ last' = "/"
    /\ zdiv' = IsZero(b)
    /\ UNCHANGED <<flags, TINT, TTECH, req, bound, name, x, ref, refst, call, out, y, tech, thr, frames>>

\* this_type operator / (const_refernce other) const
Divide == \E b \in Operands(TINT) : DivideBy(b)

Next ==
    \/ set
    \/ AddAssign
    \/ SubAssign
    \/ MulAssign
    \/ DivAssign
    \/ Increment
    \/ Decrement
    \/ Divide

Spec == Init /\ [][Next]_vars

(***************************************************************************)
(* SpecOps: every member of the Adaptive Value applied once.  The initial  *)
(* states draw the build, the type, the technique and the values held by   *)
(* two objects x and y of that type; each action applies one member to x   *)
(* (with y as the other operand) and records the backend call it made, the *)
(* value it returned and the technique reported afterwards.                *)
(***************************************************************************)

\* the default template argument of TTECH, reported whatever was requested
base_techniq(T, t) == detected_techniq_used(T)

\* techn_t get_techniq() const { return TTECH; }
get_techniq(T, t) == t

\* the result is x itself, returned by reference
SelfRef == [k |-> "self", v |-> << >>]

\* the result is a bool
Bool(r) == [k |-> "bool", v |-> r]

\* a < b with both operands read as unsigned, whatever the type T
unsigned_less(T, a, b) == ULess(a, b)

\* the built-in a < b on two values of the type T
cxx_less(T, a, b) ==
    IF T.sgn /\ SignBit(a) # SignBit(b) THEN SignBit(a) ELSE ULess(a, b)

InitOps ==
    /\ flags \in FacadeBuilds
    /\ TINT \in Types
    /\ TTECH \in TechIds
    /\ req = "explicit"
    /\ bound = technique_selector(flags, TINT, TTECH)
    /\ name = technt2string(flags, TTECH)
    /\ x \in Operands(TINT)
    /\ y \in Operands(TINT)
    /\ ref = x    \* the twin is constructed from the same value and never operated on
    /\ xst = "ok"
    /\ refst = "ok"
    /\ call = NoCall
    /\ out = NoOut
    /\ last = "none"
    /\ res = NoRes
    /\ zdiv = FALSE
    /\ tech = [made |-> {get_techniq(TINT, TTECH)}, self |-> {get_techniq(TINT, TTECH)},
               result |-> {}]
    /\ thr = << >>
    /\ frames = << >>

\* no member has been applied to x yet
Fresh == last = "none" /\ xst = "ok"

\* get_techniq() of x and of the Adaptive Value the member returned, if the
\* program exists and the member returned
Reported(returned, isValue) ==
    IF returned
    THEN [tech EXCEPT !.self = {get_techniq(TINT, TTECH)},
                      !.result = IF isValue THEN {get_techniq(TINT, TTECH)} ELSE {}]
    ELSE tech

\* this_type result(backend_type::op(m_tiValue, other.m_tiValue)); return result
Binary(opname, op) ==
    /\ Fresh
    /\ \E o \in BackendOp(flags, bound, op, TINT, x, y) :
          /\ res' = IF o.k = "val" THEN o ELSE NoRes
          /\ xst' = IF o.k = "val" THEN "ok" ELSE o.k
          /\ tech' = Reported(o.k = "val", TRUE)
    /\ call' = [op |-> op, a |-> x, b |-> y]
    /\ last' = opname
    /\ zdiv' = (op = "div" /\ IsZero(y))
    /\ UNCHANGED <<flags, TINT, TTECH, req, bound, name, x, ref, refst, out, y, thr, frames>>

\* this_type operator + (const_refernce other) const
Plus == Binary("+", "add")

\* this_type operator - (const_refernce other) const
Minus == Binary("-", "sub")

\* this_type operator * (const_refernce other) const
Times == Binary("*", "mul")

\* this_type operator / (const_refernce other) const
Over == Binary("/", "div")

\* m_tiValue = backend_type::op(m_tiValue, b); then return *this, by
\* reference (byValue FALSE) or as a copy (byValue TRUE)
Update(opname, op, b, byValue) ==
    /\ \E o \in BackendOp(flags, bound, op, TINT, x, b) :
          /\ x' = IF o.k = "val" THEN o.v ELSE x
          /\ xst' = IF o.k = "val" THEN "ok" ELSE o.k
          /\ res' = IF o.k = "val" THEN (IF byValue THEN o ELSE SelfRef) ELSE NoRes
          /\ tech' = Reported(o.k = "val", TRUE)
    /\ call' = [op |-> op, a |-> x, b |-> b]
    /\ last' = opname
    /\ zdiv' = (op = "div" /\ IsZero(b))
    /\ UNCHANGED <<flags, TINT, TTECH, req, bound, name, ref, refst, out, y, thr, frames>>

\* this_type& operator += (const_refernce other)
PlusAssign == Fresh /\ Update("+=", "add", y, FALSE)

\* this_type& operator -= (const_refernce other)
MinusAssign == Fresh /\ Update("-=", "sub", y, FALSE)

\* this_type& operator *= (const_refernce other)
TimesAssign == Fresh /\ Update("*=", "mul", y, FALSE)

\* this_type& operator /= (const_refernce other)
OverAssign == Fresh /\ Update("/=", "div", y, FALSE)

\* this_type operator ++ (int)
PostIncrement == Fresh /\ Update("++", "add", Enc(1, TINT.bytes), TRUE)

\* this_type operator -- (int), on a fresh x or on the x an increment left
PostDecrement ==
    /\ xst = "ok"
    /\ last \in {"none", "++"}
    /\ Update(IF last = "++" THEN "++--" ELSE "--", "sub", Enc(1, TINT.bytes), TRUE)

\* set(v) on a fresh x
SetValue == Fresh /\ set

\* a member that returns r and changes neither operand
Observe(opname, r) ==
    /\ Fresh
    /\ res' = r
    /\ call' = [op |-> opname, a |-> x, b |-> y]
    /\ last' = opname
    /\ tech' = Reported(TRUE, r.k = "val")
    /\ UNCHANGED <<flags, TINT, TTECH, req, bound, name, x, ref, xst, refst, out, zdiv, y, thr, frames>>

\* bool operator == (const this_type o)
Equal == Observe("==", Bool(x = y))

\* bool operator != (const this_type o)
NotEqual == Observe("!=", Bool(x # y))

\* bool operator < (const this_type o)
Less == Observe("<", Bool(cxx_less(TINT, x, y)))

\* bool operator > (const this_type o)
Greater == Observe(">", Bool(cxx_less(TINT, y, x)))

\* bool operator <= (const this_type o)
LessEqual == Observe("<=", Bool(~cxx_less(TINT, y, x)))

\* bool operator >= (const this_type o)
GreaterEqual == Observe(">=", Bool(~cxx_less(TINT, x, y)))

\* value_type value() const
value == Observe("value", Val(x))

\* an assignment that takes the value out of its source and leaves 0 there
AssignAndClear(opname) ==
    /\ Fresh
    /\ x' = y
    /\ y' = Zero(TINT.bytes)
    /\ res' = SelfRef
    /\ call' = [op |-> opname, a |-> x, b |-> y]
    /\ last' = opname
    /\ tech' = Reported(TRUE, TRUE)
    /\ UNCHANGED <<flags, TINT, TTECH, req, bound, name, ref, xst, refst, out, zdiv, thr, frames>>

\* m_tiValue = o.m_tiValue; return *this
AssignFrom(opname) ==
    /\ Fresh
    /\ x' = y
    /\ res' = SelfRef
    /\ call' = [op |-> opname, a |-> x, b |-> y]
    /\ last' = opname
    /\ tech' = Reported(TRUE, TRUE)
    /\ UNCHANGED <<flags, TINT, TTECH, req, bound, name, ref, xst, refst, out, zdiv, y, thr, frames>>

\* this_type& operator = (this_type& o)
CopyAssign == AssignFrom("=")

\* this_type& operator = (this_type&& o)
MoveAssign == AssignFrom("=&&")

\* a constructor call with the arguments args: r is what overload resolution
\* and the chosen constructor make of it
Construct(opname, args, r) ==
    /\ Fresh
    /\ res' = IF r.k = "val" THEN r ELSE NoRes
    /\ xst' = IF r.k = "val" THEN "ok" ELSE r.k
    /\ call' = [op |-> opname, a |-> args, b |-> << >>]
    /\ last' = opname
    /\ tech' = Reported(r.k = "val", TRUE)
    /\ UNCHANGED <<flags, TINT, TTECH, req, bound, name, x, ref, refst, out, zdiv, y, thr, frames>>

\* adaptive_number z;  both adaptive_number() and the explicit
\* adaptive_number(value_type value = 0) accept an empty argument list and
\* neither is a better match: the call is ambiguous
DefaultConstruct == Construct("adaptive_number()", << >>, IllFormed)

\* adaptive_number z(v): explicit adaptive_number(value_type value)
ValueConstruct == Construct("adaptive_number(v)", y, Val(y))

\* adaptive_number z(x): adaptive_number(const_refernce other)
CopyConstruct == Construct("adaptive_number(x)", x, Val(x))

\* adaptive_number z(std::move(x)): m_tiValue(std::move(other).m_tiValue)
\* copies the integer and leaves other as it was
MoveConstruct == Construct("adaptive_number(&&x)", x, Val(x))

NextOps ==
    \/ Plus
    \/ Minus
    \/ Times
    \/ Over
    \/ PlusAssign
    \/ MinusAssign
    \/ TimesAssign
    \/ OverAssign
    \/ PostIncrement
    \/ PostDecrement
    \/ SetValue
    \/ Equal
    \/ NotEqual
    \/ Less
    \/ Greater
    \/ LessEqual
    \/ GreaterEqual
    \/ value
    \/ CopyAssign
    \/ MoveAssign
    \/ DefaultConstruct
    \/ ValueConstruct
    \/ CopyConstruct
    \/ MoveConstruct

SpecOps == InitOps /\ [][NextOps]_vars

(***************************************************************************)
(* SpecThreads: two threads, each applying compound operators to an        *)
(* Adaptive Value of its own.  An operator runs in three steps (the call   *)
(* of the backend function with its two arguments, the computation inside  *)
(* it, the store of the returned value into m_tiValue) and the steps of    *)
(* the two threads interleave freely.                                      *)
(***************************************************************************)

Threads == {"t1", "t2"}

\* the number of operators each thread applies
MaxOps == 2

\* a backend function keeps everything it computes in one frame of static
\* storage, the same for every caller
shared_frame(t) == "t1"

\* the arguments, va, vb, vc and _result of a backend function are automatic
\* variables and registers: every call gets a frame of its own, in the
\* thread that makes the call
frame_of(t) == t

\* the operand every operator of a thread is given
ThreadOperands(T) == {Enc(2, T.bytes)}

\* the types the threads' values wrap: one that wraps, one whose overflow is
\* undefined and one of the widest width
ThreadTypes ==
    {[bytes |-> 1, sgn |-> FALSE], [bytes |-> 4, sgn |-> TRUE], [bytes |-> 8, sgn |-> FALSE]}

\* the value each thread constructs its Adaptive Value from
InitialOf(t, T) == IF t = "t1" THEN Enc(2, T.bytes) ELSE MaxOf(T.bytes)

NoFrame == [op |-> "none", a |-> << >>, b |-> << >>, r |-> << >>]

InitThreads ==
    /\ flags = AllFlags \ {"__NEON__"}
    /\ TINT \in ThreadTypes
    /\ TTECH = Scalar
    /\ req = "explicit"
    /\ bound = "scalar"
    /\ name = "Scalar"
    /\ x = Zero(TINT.bytes)
    /\ ref = Zero(TINT.bytes)
    /\ xst = "ok"
    /\ refst = "ok"
    /\ call = NoCall
    /\ out = NoOut
    /\ last = "none"
    /\ res = NoRes
    /\ zdiv = FALSE
    /\ y = Zero(TINT.bytes)
    /\ tech = NoTech
    /\ \E bk \in [Threads -> Backends] :
          thr = [t \in Threads |->
                    [bk |-> bk[t], v |-> InitialOf(t, TINT), pc |-> "idle", n |-> 0,
                     alone |-> {InitialOf(t, TINT)}]]
    /\ frames = [t \in Threads |-> NoFrame]

\* the values a thread running alone holds after one more op with operand b
AloneAfter(t, op, b) ==
    UNION {{o.v : o \in {p \in BackendOp(flags, thr[t].bk, op, TINT, a, b) : p.k = "val"}}
              : a \in thr[t].alone}

\* thread t enters an operator: backend_type::op(m_tiValue, other.m_tiValue)
\* is called and its arguments are loaded into the frame of the call
Enter(t, op) ==
    /\ xst = "ok"
    /\ thr[t].pc = "idle"
    /\ thr[t].n < MaxOps
    /\ \E b \in ThreadOperands(TINT) :
          /\ IllFormed \notin BackendOp(flags, thr[t].bk, op, TINT, thr[t].v, b)
          /\ frames' = [frames EXCEPT ![frame_of(t)] =
                            [op |-> op, a |-> thr[t].v, b |-> b, r |-> << >>]]
          /\ thr' = [thr EXCEPT ![t].pc = "called", ![t].n = @ + 1,
                                ![t].alone = AloneAfter(t, op, b)]
    /\ UNCHANGED <<flags, TINT, TTECH, req, bound, name, x, ref, xst, refst, call, out,
                   last, res, zdiv, y, tech>>

\* this_type& operator += (const_refernce other), entered by thread t
EnterAdd(t) == Enter(t, "add")

\* this_type& operator -= (const_refernce other), entered by thread t
EnterSub(t) == Enter(t, "sub")

\* this_type& operator *= (const_refernce other), entered by thread t
EnterMul(t) == Enter(t, "mul")

\* this_type& operator /= (const_refernce other), entered by thread t
EnterDiv(t) == Enter(t, "div")

\* the body of the backend function, on what the frame of the call holds;
\* a trap ends the process
Compute(t) ==
    /\ xst = "ok"
    /\ thr[t].pc = "called"
    /\ LET f == frames[frame_of(t)]
       IN  \E o \in BackendOp(flags, thr[t].bk, f.op, TINT, f.a, f.b) :
              IF o.k = "val"
              THEN /\ frames' = [frames EXCEPT ![frame_of(t)].r = o.v]
                   /\ thr' = [thr EXCEPT ![t].pc = "computed"]
                   /\ xst' = xst
              ELSE /\ xst' = o.k
                   /\ UNCHANGED <<thr, frames>>
    /\ UNCHANGED <<flags, TINT, TTECH, req, bound, name, x, ref, refst, call, out,
                   last, res, zdiv, y, tech>>

\* m_tiValue = <the value returned>; return *this
Store(t) ==
    /\ xst = "ok"
    /\ thr[t].pc = "computed"
    /\ thr' = [thr EXCEPT ![t].pc = "idle", ![t].v = frames[frame_of(t)].r]
    /\ UNCHANGED <<flags, TINT, TTECH, req, bound, name, x, ref, xst, refst, call, out,
                   last, res, zdiv, y, tech, frames>>

NextThreads ==
    \E t \in Threads :
        \/ EnterAdd(t)
        \/ EnterSub(t)
        \/ EnterMul(t)
        \/ EnterDiv(t)
        \/ Compute(t)
        \/ Store(t)

SpecThreads == InitThreads /\ [][NextThreads]_vars

(***************************************************************************)
(* Claims                                                                  *)
(***************************************************************************)

\* the vector tiers
VectorTiers == {"mmx", "sse", "avx"}

\* the capability macro that compiles the technique t in
Capability(t) ==
    CASE t = MMX -> "__MMX__"
      [] t = SSE -> "__SSE2__"
      [] t = AVX -> "__AVX2__"
      [] t = AVX512 -> "__AVX512__"
      [] t = NEON -> "__NEON__"
      [] t \in {OpenCL, Vulkan} -> "__GPU__"

\* the technique t is one whose capability is not compiled in
NotCompiledIn(f, t) == t \notin {Scalar, internal} /\ Capability(t) \notin f

\* C1: an Adaptive Value bound to a vector tier and one of the same width
\* bound to Scalar, started from the same value and given the same
\* operations (set, +=, -=, *=, /= by a non-zero divisor, ++, --) with the
\* same operands, hold equal values after every step: every step completes
\* on both and leaves the same value in both.
C1_LockstepEqual ==
    (bound \in VectorTiers /\ ~zdiv /\ last # "/")
        => (xst = "ok" /\ refst = "ok" /\ x = ref)

\* C2: for every width and operand pair, add(a, b) and sub(a, b) of every
\* vector tier return one value, and it is the value the Scalar backend
\* returns.
C2_AddSubMatchScalar ==
    call.op \in {"add", "sub"}
        => \A bk \in VectorTiers \cap DOMAIN out :
              /\ \E v \in {o.v : o \in out["scalar"]} : out["scalar"] = {Val(v)}
              /\ out[bk] = out["scalar"]

\* C3: for every width and operand pair, mul(a, b) of every vector tier
\* returns one value, and it is the value the Scalar backend returns.
C3_MulMatchesScalar ==
    call.op = "mul"
        => \A bk \in VectorTiers \cap DOMAIN out :
              /\ \E v \in {o.v : o \in out["scalar"]} : out["scalar"] = {Val(v)}
              /\ out[bk] = out["scalar"]

\* C4: for every width and operand pair, add(a, b) returns a + b and
\* sub(a, b) returns a - b reduced modulo 2^bits of the width, and the call
\* has no other outcome (it never traps): so add(250, 10) = 4 in an unsigned
\* byte and add(127, 1) = -128 in a signed byte.
C4_AddSubWrap ==
    /\ call.op = "add" => out["scalar"] = {Val(Add(call.a, call.b))}
    /\ call.op = "sub" => out["scalar"] = {Val(Sub(call.a, call.b))}

\* C5: for every width and operand pair, mul(a, b) returns the low bits of
\* the full product a * b, and the call has no other outcome (it never
\* traps): so mul(200, 200) = 64 in an unsigned byte.
C5_MulTruncates ==
    call.op = "mul" => out["scalar"] = {Val(Mul(call.a, call.b))}

\* q is the quotient of a by b truncated toward zero, as a value of the
\* width of T: with A, B, Q the integers a, b, q stand for,
\* A = Q * B + R with |R| < |B| and R zero or of the sign of A.  The
\* quotient of (most negative, -1) in a signed width, 2^(bits-1), is not a
\* value of the width: q is that quotient reduced modulo 2^bits.
IsTruncQuot(T, a, b, q) ==
    LET n == T.bytes
        A == Conv(a, T.sgn, 2 * n)
        B == Conv(b, T.sgn, 2 * n)
        Q == IF T.sgn /\ a = MinOf(n) /\ b = Enc(-1, n)
             THEN Conv(q, FALSE, 2 * n)
             ELSE Conv(q, T.sgn, 2 * n)
        R == Sub(A, Mul(Q, B))
    IN  /\ Len(q) = n
        /\ ULess(Abs(R), Abs(B))
        /\ IsZero(R) \/ SignBit(R) = SignBit(A)

\* C6: in every backend, div(a, b) with b # 0 is the Scalar backend's
\* division; every value it returns is the quotient truncated toward zero
\* (div(7, 2) = 3, div(-7, 2) = -3), never the floored one, and every tier
\* has the same outcomes.
C6_TruncatingDivision ==
    (call.op = "div" /\ ~IsZero(call.b))
        => \A bk \in DOMAIN out :
              /\ out[bk] = out["scalar"]
              /\ \E o \in out[bk] : o.k = "val"
              /\ \A o \in out[bk] : o.k = "val" => IsTruncQuot(TINT, call.a, call.b, o.v)
              /\ (call.a = Enc(7, TINT.bytes) /\ call.b = Enc(2, TINT.bytes))
                    => out[bk] = {Val(Enc(3, TINT.bytes))}
              /\ (TINT.sgn /\ call.a = Enc(-7, TINT.bytes) /\ call.b = Enc(2, TINT.bytes))
                    => out[bk] = {Val(Enc(-3, TINT.bytes))}

\* C6 witness: the AVX backend of an 8-byte signed width has divided -7 by 2
\* and returned -3.
C6_Witness ==
    /\ call.op = "div"
    /\ TINT = [bytes |-> 8, sgn |-> TRUE]
    /\ call.a = Enc(-7, 8)
    /\ call.b = Enc(2, 8)
    /\ out["avx"] = {Val(Enc(-3, 8))}

\* C7: a division by zero never returns a value: x / y and x /= y with y
\* holding 0 end in the fatal arithmetic condition, no result is returned
\* and x /= y stores nothing into x (x still equals the Scalar-bound value,
\* which stored nothing either).
C7_ZeroDivisorFatal ==
    zdiv => (xst = "fatal" /\ res = NoRes /\ (last = "/=" => refst = "fatal" /\ x = ref))

\* C8: division by zero is the only failure of a division: in every backend
\* div(a, b) with b # 0 returns a value of the bound width and has no other
\* outcome, the pair (most negative signed value, -1) included.  (That add,
\* sub and mul return a value for every pair is what C2..C5 decide.)
C8_OnlyZeroDivisorFails ==
    (call.op = "div" /\ ~IsZero(call.b))
        => \A bk \in DOMAIN out :
              /\ out[bk] # {}
              /\ \A o \in out[bk] : o.k = "val" /\ Len(o.v) = TINT.bytes

\* C9: an Adaptive Value requested with a technique whose capability is not
\* compiled in is bound to the Scalar backend and reports the technique
\* name "Scalar"; no error is raised.
C9_FallbackIsScalar ==
    (req = "explicit" /\ bound # "none" /\ NotCompiledIn(flags, TTECH))
        => (bound = "scalar" /\ name = "Scalar")

\* C10: for every set of capability flags, a width bound with the default
\* technique resolves to exactly one backend, and to the Scalar backend
\* when the technique the default map names is not compiled in.
C10_DefaultResolves ==
    (req = "default" /\ bound # "none")
        => /\ bound \in Backends
           /\ NotCompiledIn(flags, detected_techniq_used(TINT)) => bound = "scalar"

\* C11: for every width, the 8-byte widths included, a technique given
\* explicitly as Scalar or as internal resolves to the Scalar backend.
C11_ExplicitScalarOrInternal ==
    (req = "explicit" /\ bound # "none" /\ TTECH \in {Scalar, internal})
        => bound = "scalar"

\* the backend class template named after the vector technique t
BackendOf(t) ==
    CASE t = MMX -> "mmx"
      [] t = SSE -> "sse"
      [] t = AVX -> "avx"

\* C12: for every width, the 1-, 2- and 4-byte widths with their fixed
\* Scalar overrides included, an explicitly requested MMX, SSE or AVX whose
\* capability flag is compiled in resolves to that technique's backend.
C12_ExplicitVectorResolves ==
    (req = "explicit" /\ bound # "none" /\ TTECH \in {MMX, SSE, AVX}
        /\ Capability(TTECH) \in flags)
        => bound = BackendOf(TTECH)

\* C13: with no technique named, the technique is a function of the width
\* alone: Scalar up to 4 bytes, SSE above 4 and up to 8 bytes; the default
\* 8-, 16- and 32-bit values bind to the Scalar backend and the default
\* 64-bit values to the SSE backend.
C13_DefaultByWidth ==
    (req = "default" /\ bound # "none")
        => IF TINT.bytes <= 4
           THEN TTECH = Scalar /\ bound = "scalar"
           ELSE TTECH = SSE /\ bound = "sse"

\* C14: a GPU technique identifier (OpenCL, Vulkan) resolves, for every
\* width, to the Scalar backend, and no error is raised.
C14_GpuFallsBackToScalar ==
    (req = "explicit" /\ bound # "none" /\ TTECH \in {OpenCL, Vulkan})
        => bound = "scalar"

\* C15: the technique binding is invariant: whatever member has been applied
\* to an Adaptive Value (set, binary or compound arithmetic, increment,
\* decrement, a comparison, copy or move assignment, a constructor call), the
\* technique it reports is the technique argument it was created with, and
\* the result of every binary operator reports that same technique.
C15_TechniqueInvariant ==
    /\ tech.made = {TTECH}
    /\ tech.self = {TTECH}
    /\ (last \in {"+", "-", "*", "/"} /\ res.k = "val") => tech.result = {TTECH}

\* a product returned by a value whose technique (Vulkan) is not the
\* technique its backend implements, and a copy assignment on an AVX value
C15_Witness ==
    \/ last = "*" /\ res.k = "val" /\ TTECH = Vulkan /\ bound = "scalar"
          /\ tech.result = {Vulkan}
    \/ last = "=" /\ TTECH = AVX /\ bound = "avx" /\ x = y /\ x # call.a
          /\ tech.self = {AVX}

\* C16: set(v) assigns the held value: after x.set(v), for every value v of
\* the width, the program runs on, x.value() returns v and x reports the
\* technique it was created with.
C16_SetAssigns ==
    last = "set" => (xst = "ok" /\ x = call.b /\ tech.self = {TTECH})

\* C17: construction is total: an Adaptive Value constructed with no
\* argument exists and holds 0; constructed from a value v it holds v;
\* constructed by copy or by move from a source it holds the source's value,
\* and the source holds afterwards what it held before.
C17_ConstructionTotal ==
    /\ last = "adaptive_number()" => res = Val(Zero(TINT.bytes))
    /\ last = "adaptive_number(v)" => res = Val(call.a)
    /\ last \in {"adaptive_number(x)", "adaptive_number(&&x)"}
          => (res = Val(call.a) /\ x = call.a)

\* the backend function the spec assigns to an arithmetic operator
FunctionOf(opname) ==
    CASE opname \in {"+", "+=", "++"} -> "add"
      [] opname \in {"-", "-=", "--"} -> "sub"
      [] opname \in {"*", "*="} -> "mul"
      [] opname \in {"/", "/="} -> "div"

\* the values the bound backend's function returns for the recorded operands
BackendValues(opname) ==
    {o \in BackendOp(flags, bound, FunctionOf(opname), TINT, call.a, call.b) : o.k = "val"}

\* C18: each binary operator x + y, x - y, x * y, x / y (y not holding 0)
\* returns a new Adaptive Value whose held value is the bound backend's add,
\* sub, mul or div of the values x and y hold, and x and y hold afterwards
\* what they held before.
C18_BinaryReturnsBackendValue ==
    (last \in {"+", "-", "*", "/"} /\ ~IsZero(y))
        => /\ res \in BackendValues(last)
           /\ x = call.a
           /\ y = call.b

\* C19: each compound operator x += y, x -= y, x *= y, x /= y (y not
\* holding 0) replaces the value x holds with the bound backend's add, sub,
\* mul or div of x's old value and y's value, leaves y unchanged and returns
\* a reference to x itself; the value x holds afterwards is the value the
\* corresponding binary operator returns for the old x and y.
C19_CompoundUpdatesInPlace ==
    (last \in {"+=", "-=", "*=", "/="} /\ ~IsZero(y))
        => /\ Val(x) \in BackendValues(last)
           /\ y = call.b
           /\ res = SelfRef
           /\ \E o \in BackendOp(flags, bound, FunctionOf(last), TINT, call.a, y) :
                 o = Val(x)

\* v is neither the smallest nor the largest value of the type T
StrictlyInside(T, v) ==
    IF T.sgn THEN v \notin {MinOf(T.bytes), MaxOf(T.bytes)}
    ELSE v \notin {Zero(T.bytes), Enc(-1, T.bytes)}

\* C20: increment sets the held value to the bound backend's add(v, 1) and
\* decrement to sub(v, 1); from a value v strictly inside the range of the
\* width, one increment followed by one decrement leaves the value held
\* equal to v, for every technique.
C20_IncrementDecrement ==
    /\ last \in {"++", "--"}
          => (call.b = Enc(1, TINT.bytes) /\ Val(x) \in BackendValues(last))
    /\ (last = "++--" /\ StrictlyInside(TINT, ref))
          => (xst = "ok" /\ x = ref)

\* C21: the post-decrement x-- lowers the value x holds by 1 and returns an
\* Adaptive Value holding the value x held before the decrement.
C21_PostDecrementReturnsOld ==
    last = "--"
        => /\ xst = "ok"
           /\ x = Sub(call.a, Enc(1, TINT.bytes))
           /\ res = Val(call.a)

\* C22: for every backend of the build (Scalar and each compiled-in vector
\* tier), every width and every value a of that width: add(a, 0) returns a,
\* sub(a, a) returns 0 and mul(a, 1) returns a.
C22_IdentityLaws ==
    \A bk \in DOMAIN out :
        /\ (call.op = "add" /\ IsZero(call.b)) => out[bk] = {Val(call.a)}
        /\ (call.op = "sub" /\ call.b = call.a) => out[bk] = {Val(Zero(TINT.bytes))}
        /\ (call.op = "mul" /\ call.b = Enc(1, TINT.bytes)) => out[bk] = {Val(call.a)}

\* the order of the integers a and b of the type T: b - a, computed exactly
\* in twice the width, is positive
Below(T, a, b) ==
    LET n == 2 * T.bytes
        d == Sub(Conv(b, T.sgn, n), Conv(a, T.sgn, n))
    IN  ~IsZero(d) /\ ~SignBit(d)

\* the result of the comparison named opname on the integers a and b
Compared(opname, T, a, b) ==
    CASE opname = "==" -> a = b
      [] opname = "!=" -> a # b
      [] opname = "<" -> Below(T, a, b)
      [] opname = ">" -> Below(T, b, a)
      [] opname = "<=" -> Below(T, a, b) \/ a = b
      [] opname = ">=" -> Below(T, b, a) \/ a = b

CanonicalName(t) ==
    CASE t = MMX -> "MMX"
      [] t = SSE -> "SSE"
      [] t = AVX -> "AVX"
      [] t = AVX512 -> "AVX512"
      [] t = NEON -> "NEON"
      [] t = OpenCL -> "OpenCL"
      [] t = Vulkan -> "Vulkan"

\* the technique value the instantiation was given
Requested == IF req = "default" THEN detected_techniq_used(TINT) ELSE TTECH

\* C25: in every build the technique-to-name function returns a name for
\* every technique value: "Scalar" for Scalar, the canonical name for each
\* technique whose capability is compiled in ("MMX", "SSE", "AVX", "AVX512",
\* "NEON", "OpenCL", "Vulkan"), and "Scalar" for every other value, the
\* internal sentinel included.
C25_TechniqueNames ==
    bound # "none"
        => name = IF Requested \in {Scalar, internal} THEN "Scalar"
                  ELSE IF Capability(Requested) \in flags THEN CanonicalName(Requested)
                  ELSE "Scalar"

\* C26: threads that each operate on an Adaptive Value of their own, of any
\* backend, without coordination: in every interleaving, whenever a thread
\* is between two operators its value is one the same operators leave when
\* the thread runs them alone in sequence.
C26_ThreadsIndependent ==
    \A t \in DOMAIN thr : thr[t].pc = "idle" => thr[t].v \in thr[t].alone

\* both threads have finished their operators on the same vector backend,
\* and the two values differ from each other and from the initial value
C26_Witness ==
    /\ DOMAIN thr = Threads
    /\ \A t \in Threads : thr[t].pc = "idle" /\ thr[t].n = MaxOps /\ thr[t].bk = "sse"
    /\ thr["t1"].v # thr["t2"].v
    /\ \A t \in Threads : thr[t].v # InitialOf(t, TINT)

\* the values of the type T: the patterns of T.bytes bytes, which read as
\* unsigned are 0 .. 2^bits - 1 and read as two's complement are
\* -2^(bits-1) .. 2^(bits-1) - 1
Representable(T) == [1..T.bytes -> 0..255]

OutcomeOfLast ==
    IF xst # "ok" THEN [k |-> xst, v |-> << >>]
    ELSE IF last \in {"+", "-", "*", "/"} THEN res
    ELSE Val(x)

\* C28: in a build with the AVX512 capability a value bound to AVX512
\* resolves to the backend a value bound to AVX resolves to,
\* technique_backend_avx; for every width and operand pair the outcome of
\* each of its arithmetic operators is an outcome of that operator on an
\* AVX-bound value, and it reports the technique AVX512.
C28_Avx512IsAvxBackend ==
    (TTECH = AVX512 /\ "__AVX512__" \in flags)
        => /\ bound = "avx"
           /\ bound = technique_selector(flags, TINT, AVX)
           /\ tech.self = {AVX512}
           /\ name = "AVX512"
           /\ last \in {"+", "-", "*", "/", "+=", "-=", "*=", "/=", "++", "--"}
                 => OutcomeOfLast \in
                       BackendOp(flags, technique_selector(flags, TINT, AVX),
                                 FunctionOf(last), TINT, call.a, call.b)

\* the product of two 8-byte values bound to AVX512, computed by the AVX
\* backend and reported with the technique AVX512
C28_Witness ==
    /\ TTECH = AVX512
    /\ "__AVX512__" \in flags
    /\ bound = "avx"
    /\ last = "*"
    /\ TINT.bytes = 8
    /\ res.k = "val"
    /\ ~IsZero(res.v)
    /\ tech.result = {AVX512}

====
